---- MODULE Spec2Model ----
(***************************************************************************)
(* Model of book_maker/translator/chatgptapi_translator.py (ChatGPTAPI).   *)
(*                                                                         *)
(* Text is a sequence of one-character strings.  The remote completion     *)
(* service is the environment: every call either returns a completion or   *)
(* raises.  translate_list is followed from its first remote call to its   *)
(* return (pc = "done") or to the exception it propagates (pc = "raised"). *)
(***************************************************************************)
EXTENDS Integers, Sequences, FiniteSets, TLC

(***************************************************************************)
(* Bounds of the model.                                                    *)
(***************************************************************************)
\* longest paragraph list handed to translate_list
MaxN == 2
\* most segments the service puts in one reply
MaxSeg == 3
\* largest credential pool
MaxKeys == 2
\* most length-truncated completions the service returns in one run
MaxLongText == 1
\* longest list of items handed to process_concurrently
MaxItems == 3
\* largest max_workers / max_concurrent
MaxWorkers == 2
\* longest reply text handed to the parser on its own
MaxText == 5
\* largest token count of a request handed to the router
MaxTokens == 1205

(***************************************************************************)
(* Program constants.                                                      *)
(***************************************************************************)
\* max_attempts with one attempt too many
max_attempts_Four == 3 + 1
\* translate: max_attempts = 3
max_attempts == 3
\* max_retries with one retry too many
max_retries_Sixteen == 15 + 1
\* get_best_result_list: max_retries=15
max_retries == 15
\* translate_list: sleep_dur argument of get_best_result_list
sleep_dur == 6

(***************************************************************************)
(* Characters and strings.                                                 *)
(***************************************************************************)
NL == "\n"
QUOTE == "\""
BACKSLASH == "\\"
\* str.strip() / str.splitlines() / regex \s over the characters used here
Whitespace == {" ", "\n", "\t", "\r"}
LineBreaks == {"\n", "\r"}
Digits == {"0", "1", "2", "3", "4", "5", "6", "7", "8", "9"}
\* the quote characters accepted by the better_translation pattern: the
\* straight quote and the left and right curly quotes (LDQUO, RDQUO stand for
\* the one-character strings U+201C and U+201D)
LDQUO == "LDQUO"
RDQUO == "RDQUO"
Quotes == {QUOTE, LDQUO, RDQUO}

\* '"direct_trans":'
DirectTransMarker == <<"\"", "d", "i", "r", "e", "c", "t", "_", "t", "r", "a", "n", "s", "\"", ":">>
\* '_trans":'
TransMarker == <<"_", "t", "r", "a", "n", "s", "\"", ":">>
\* '"better_translation":'
BetterMarker == <<"\"", "b", "e", "t", "t", "e", "r", "_", "t", "r", "a", "n", "s", "l", "a", "t", "i", "o", "n", "\"", ":">>

\* s[i..j] as Python slices it (empty when j < i)
Slice(s, i, j) == IF j < i THEN <<>> ELSE SubSeq(s, i, j)

\* p occurs in s starting at position i
MatchAt(p, s, i) ==
    /\ i >= 1
    /\ i + Len(p) - 1 <= Len(s)
    /\ \A k \in 1..Len(p) : s[i + k - 1] = p[k]

\* positions at which p occurs in s
Occurrences(p, s) == {i \in 1..Len(s) : MatchAt(p, s, i)}

\* Python: p in s
Contains(p, s) == Occurrences(p, s) # {}

SetMin(S) == CHOOSE x \in S : \A y \in S : x <= y
SetMax(S) == CHOOSE x \in S : \A y \in S : x >= y

\* Python: s.split(p)[-1], the text after the last occurrence of p
AfterLast(p, s) ==
    IF ~Contains(p, s) THEN s
    ELSE Slice(s, SetMax(Occurrences(p, s)) + Len(p), Len(s))

\* Python: s.replace('\\n', '\n'), left to right, non-overlapping
RECURSIVE ReplaceEscapedNewline(_)
ReplaceEscapedNewline(s) ==
    IF s = <<>> THEN <<>>
    ELSE IF MatchAt(<<BACKSLASH, "n">>, s, 1)
         THEN <<NL>> \o ReplaceEscapedNewline(Slice(s, 3, Len(s)))
         ELSE <<s[1]>> \o ReplaceEscapedNewline(Tail(s))

\* Python: s.strip()
RECURSIVE LStrip(_)
LStrip(s) == IF s # <<>> /\ s[1] \in Whitespace THEN LStrip(Tail(s)) ELSE s
RECURSIVE RStrip(_)
RStrip(s) ==
    IF s # <<>> /\ s[Len(s)] \in Whitespace THEN RStrip(Slice(s, 1, Len(s) - 1)) ELSE s
Strip(s) == LStrip(RStrip(s))

\* Python: s.splitlines() ("\r\n" is one break; no empty last line)
RECURSIVE SplitLines(_)
SplitLines(s) ==
    IF s = <<>> THEN <<>>
    ELSE LET brk == {i \in 1..Len(s) : s[i] \in LineBreaks} IN
         IF brk = {} THEN <<s>>
         ELSE LET i == SetMin(brk)
                  w == IF s[i] = "\r" /\ i < Len(s) /\ s[i + 1] = "\n" THEN 2 ELSE 1
              IN  <<Slice(s, 1, i - 1)>> \o SplitLines(Slice(s, i + w, Len(s)))

\* Python: sep.join(parts)
RECURSIVE Join(_, _)
Join(sep, parts) ==
    IF parts = <<>> THEN <<>>
    ELSE IF Len(parts) = 1 THEN parts[1]
    ELSE parts[1] \o sep \o Join(sep, Tail(parts))

\* number of leading characters of s that lie in S
RECURSIVE Span(_, _)
Span(S, s) == IF s # <<>> /\ s[1] \in S THEN 1 + Span(S, Tail(s)) ELSE 0

(***************************************************************************)
(* get_translation: the text taken from a completion.                      *)
(***************************************************************************)
\* the pattern's tail  [quote]?,?[\s\n]*}  matches s from position e
TailMatchesAt(s, e) ==
    LET e1 == IF e <= Len(s) /\ s[e] \in Quotes THEN e + 1 ELSE e
        e2 == IF e1 <= Len(s) /\ s[e1] = "," THEN e1 + 1 ELSE e1
        e3 == e2 + Span(Whitespace, Slice(s, e2, Len(s)))
    IN  e3 <= Len(s) /\ s[e3] = "}"

\* position of the opening quote when the pattern's head
\* "better_translation":[\s\n]*[quote]  matches s from position i, else 0
HeadQuoteAt(s, i) ==
    IF ~MatchAt(BetterMarker, s, i) THEN 0
    ELSE LET j == i + Len(BetterMarker)
             q == j + Span(Whitespace, Slice(s, j, Len(s)))
         IN  IF q <= Len(s) /\ s[q] \in Quotes THEN q ELSE 0

\* start positions at which the whole pattern matches
BetterStarts(s) ==
    {i \in 1..Len(s) :
        /\ HeadQuoteAt(s, i) # 0
        /\ \E e \in (HeadQuoteAt(s, i) + 1)..(Len(s) + 1) : TailMatchesAt(s, e)}

\* re.search(pattern, response_text): group 1 of the leftmost match, the
\* capture being the shortest one (lazy quantifier)
BetterGroup(s) ==
    LET i == SetMin(BetterStarts(s))
        q == HeadQuoteAt(s, i)
        e == SetMin({x \in (q + 1)..(Len(s) + 1) : TailMatchesAt(s, x)})
    IN  Slice(s, q + 1, e - 1)

\* lines 157-164 and 176: t_text returned for a response text
ExtractText(response_text) ==
    LET extracted == IF BetterStarts(response_text) # {}
                     THEN BetterGroup(response_text)
                     ELSE response_text
    IN  ReplaceEscapedNewline(extracted)

(***************************************************************************)
(* translate_and_split_lines and the ordinal stripping of translate_list.  *)
(***************************************************************************)
\* lines 222-224: non-blank lines, stripped, in order
RECURSIVE StripNonBlank(_)
StripNonBlank(lines) ==
    IF lines = <<>> THEN <<>>
    ELSE IF Strip(lines[1]) # <<>>
         THEN <<Strip(lines[1])>> \o StripNonBlank(Tail(lines))
         ELSE StripNonBlank(Tail(lines))

\* split_lines without the test that drops blank lines
split_lines_KeepsBlank(result_str) ==
    [i \in 1..Len(SplitLines(result_str)) |-> Strip(SplitLines(result_str)[i])]

split_lines(result_str) == StripNonBlank(SplitLines(result_str))

\* OrdinalLen without the form "n."
OrdinalLen_NoDot(s) ==
    LET d1 == Span(Digits, s)
        d2 == IF s # <<>> /\ s[1] = "(" THEN Span(Digits, Tail(s)) ELSE 0
    IN  IF d2 > 0 /\ d2 + 2 <= Len(s) /\ s[d2 + 2] = ")" THEN d2 + 2 ELSE d1

\* length of the leading ordinal marker  \(\d+\) | \d+\. | \d+  (0 if none)
OrdinalLen(s) ==
    LET d1 == Span(Digits, s)
        d2 == IF s # <<>> /\ s[1] = "(" THEN Span(Digits, Tail(s)) ELSE 0
    IN  IF d2 > 0 /\ d2 + 2 <= Len(s) /\ s[d2 + 2] = ")" THEN d2 + 2
        ELSE IF d1 > 0 /\ d1 + 1 <= Len(s) /\ s[d1 + 1] = "." THEN d1 + 1
        ELSE d1

\* line 367: re.sub(r"^(\(\d+\)|\d+\.|(\d+))\s*", "", s)
strip_ordinal(s) ==
    LET m == OrdinalLen(s) IN
    IF m = 0 THEN s
    ELSE LET rest == Slice(s, m + 1, Len(s))
         IN  Slice(rest, Span(Whitespace, rest) + 1, Len(rest))

strip_ordinals(result_list) == [i \in 1..Len(result_list) |-> strip_ordinal(result_list[i])]

(***************************************************************************)
(* translate_list: the prompt built from the paragraph list.               *)
(***************************************************************************)
\* Python: s.replace(p, r), left to right, non-overlapping (p non-empty)
RECURSIVE Replace(_, _, _)
Replace(p, r, s) ==
    IF s = <<>> THEN <<>>
    ELSE IF MatchAt(p, s, 1)
         THEN r \o Replace(p, r, Slice(s, Len(p) + 1, Len(s)))
         ELSE <<s[1]>> \o Replace(p, r, Tail(s))

\* line 326: sep = "\n\n\n\n\n"
sep == <<NL, NL, NL, NL, NL>>

\* decimal digits of i, 1 <= i <= 99
DigitChar(d) == <<"0", "1", "2", "3", "4", "5", "6", "7", "8", "9">>[d + 1]
Decimal(i) == IF i < 10 THEN <<DigitChar(i)>> ELSE <<DigitChar(i \div 10), DigitChar(i % 10)>>

\* lines 302-313: runs of non-blank lines are joined with a space, blank
\* lines are kept as they are; temp_line is the run collected so far
RECURSIVE JoinRuns(_, _)
JoinRuns(lines, temp_line) ==
    LET flush == IF temp_line = <<>> THEN <<>> ELSE <<Join(<<" ">>, temp_line)>> IN
    IF lines = <<>> THEN flush
    ELSE IF Strip(lines[1]) # <<>>
         THEN JoinRuns(Tail(lines), Append(temp_line, Strip(lines[1])))
         ELSE flush \o <<lines[1]>> \o JoinRuns(Tail(lines), <<>>)

\* lines 297-323
join_lines(text) ==
    LET joined == Join(<<NL>>, JoinRuns(SplitLines(text), <<>>))
        lines == SplitLines(Replace(<<"^", "M">>, <<"\r">>, joined))
        filtered_lines == SelectSeq(lines, LAMBDA line : Strip(line) # <<"\r">>)
    IN  Join(<<NL>>, filtered_lines)

\* lines 329-341: plist holds the text of each paragraph (get_text() after
\* the sup elements are removed)
RECURSIVE NumberedParagraphs(_, _)
NumberedParagraphs(plist, i) ==
    IF plist = <<>> THEN <<>>
    ELSE <<"(">> \o Decimal(i) \o <<")", " ">> \o Strip(plist[1]) \o sep
         \o NumberedParagraphs(Tail(plist), i + 1)

build_new_str(plist) ==
    LET raw == NumberedParagraphs(plist, 1)
        cut == IF Len(raw) >= Len(sep) /\ MatchAt(sep, raw, Len(raw) - Len(sep) + 1)
               THEN Slice(raw, 1, Len(raw) - Len(sep))
               ELSE raw
    IN  join_lines(cut)

(***************************************************************************)
(* The remote completion service (the environment).                        *)
(***************************************************************************)
Letters == <<"a", "b", "c", "d", "e", "f", "g", "h", "i">>

\* the i-th translated segment, numbered "(i) x" or "i. x"
Segment(i, dotted) ==
    IF dotted THEN Decimal(i) \o <<".", " ", Letters[i]>>
    ELSE <<"(">> \o Decimal(i) \o <<")", " ", Letters[i]>>

Segments(k, dotted) == [i \in 1..k |-> Segment(i, dotted)]

\* the reply texts the service may produce for k segments:
\*   plain   - one numbered segment per line
\*   dotted  - "i." numbering, blank and whitespace-only lines in between
\*   json    - the two-pass dict, segments separated by an escaped newline
\*   illegal - a reply that carries the "direct_trans": key
ReplyText(k, style) ==
    CASE style = "plain" -> Join(<<NL>>, Segments(k, FALSE))
      [] style = "dotted" -> Join(<<NL, " ", NL>>, Segments(k, TRUE)) \o <<NL>>
      [] style = "json" ->
            <<"{">> \o BetterMarker \o <<" ", QUOTE>>
            \o Join(<<BACKSLASH, "n">>, Segments(k, FALSE)) \o <<QUOTE, ",", "}">>
      [] style = "illegal" -> DirectTransMarker \o Join(<<NL>>, Segments(k, FALSE))

\* "gpt-3.5-turbo" and "gpt-3.5-turbo-16k", the model that served the request
ModelStd == <<"g", "p", "t", "-", "3", ".", "5", "-", "t", "u", "r", "b", "o">>
Model16k == ModelStd \o <<"-", "1", "6", "k">>

\* a completion dict; keys is the set of keys it has ({} has none)
Completion(content, finish_reason, model, usage) ==
    [keys |-> {"choices", "model", "usage"},
     choices |-> <<[content |-> content, finish_reason |-> finish_reason]>>,
     model |-> model,
     usage |-> usage]

\* line 132: completion = {}
EmptyCompletion ==
    [keys |-> {},
     choices |-> <<>>,
     model |-> <<>>,
     usage |-> [prompt_tokens |-> 0, completion_tokens |-> 0]]

\* the service reports no token usage
NoUsage == [prompt_tokens |-> 0, completion_tokens |-> 0]

\* completion['usage'] and the usages the service reports for one text
Usage(p, c) == [prompt_tokens |-> p, completion_tokens |-> c]
CallUsages == {Usage(100, 50), Usage(7, 3)}

\* What one remote call does: it returns payload, or it raises.  When it
\* raises, payload is what the service had produced by then (EmptyCompletion
\* when nothing).
Returns(payload) == [kind |-> "return", payload |-> payload]
Raises(payload) == [kind |-> "raise", payload |-> payload]

\* the outcomes of a remote call made for a batch: any number of segments up
\* to MaxSeg in either numbering, an illegal reply, or a failure
BatchOutcomes ==
    {Returns(Completion(ReplyText(k, style), "stop", ModelStd, NoUsage)) :
        k \in 0..MaxSeg, style \in {"plain", "dotted"}}
    \cup {Returns(Completion(ReplyText(k, "illegal"), "stop", ModelStd, NoUsage)) :
        k \in 1..MaxN}
    \cup {Raises(EmptyCompletion)}

\* the outcomes of a remote call made for one text: every style of reply,
\* complete or cut by the length limit, served by either model, with either
\* usage, or a failure with or without a partial payload
CallOutcomes ==
    {Returns(Completion(ReplyText(k, style), f, m, u)) :
        k \in 1..2, style \in {"plain", "dotted", "json", "illegal"},
        f \in {"stop", "length"}, m \in {ModelStd, Model16k}, u \in CallUsages}
    \cup {Raises(EmptyCompletion)}
    \cup {Raises(Completion(ReplyText(1, "plain"), f, ModelStd, Usage(100, 50))) :
        f \in {"stop", "length"}}

(***************************************************************************)
(* State.                                                                  *)
(***************************************************************************)
VARIABLES
    key_len,           \* self.key_len: size of the credential pool
    cursor,            \* position of self.keys in the pool (0-based)
    api_key,           \* openai.api_key: pool position of the key in use, -1 before the first rotation
    prompt_spent,      \* self.prompt_spent, in half units (twice the program's value)
    completion_spent,  \* self.completion_spent, in half units
    long_text,         \* the texts appended to log/long_text.txt
    pc,                \* "idle", "translate", "sleep", "done", "raised"
    site,              \* the caller of translate: "initial" (line 347), "retry" (line 247), "direct" (a caller of translate itself)
    plist_len,         \* translate_list: plist_len
    new_str,           \* translate_list: new_str; translate: text
    attempt_count,     \* translate: attempt_count
    t_text,            \* translate: t_text
    result_list,       \* get_best_result_list: result_list
    best_result_list,  \* get_best_result_list: best_result_list
    retry_count,       \* get_best_result_list: retry_count
    returned,          \* the list translate_list returned
    translated,        \* the text translate returned to a direct caller
    start,             \* history: cursor when the operation was called
    attempts,          \* history: remote calls made by the operation
    translate_calls,   \* history: calls of translate made by the operation
    sleeps,            \* history: the durations get_best_result_list slept (line 245)
    backoff,           \* history: the durations the latest translate call slept (line 205)
    outcomes,          \* history: how each remote call of the latest translate call ended
    used,              \* history: the key each remote call of the latest translate call used
    last_call,         \* history: the latest remote call
    billed,            \* history: model and usage of each remote call of the latest translate call that did not raise
    spent_before,      \* history: <<prompt_spent, completion_spent>> when the latest translate call began
    aligned,           \* history: some result of translate_and_split_lines had plist_len segments
    wpc,               \* process_concurrently(_async): "idle", "running", "failing", "returned", "raised"
    wmode,             \* "threads" (process_concurrently), "async" (process_concurrently_async), "none" before the call
    n_items,           \* len(items); the items are 1..n_items
    max_workers,       \* max_workers / max_concurrent
    tasks,             \* per item: stage of its invocation of func, the total it loaded, times invoked, its result
    finish_order,      \* history: the items in the order their invocations ended
    results,           \* the list process_concurrently(_async) returned
    reply,             \* parser on its own: the text translate returned
    raw_list,          \* parser: the list translate_and_split_lines returned
    clean_list,        \* parser: the list after line 367
    again_list,        \* parser: the list parsed from clean_list joined with line breaks
    ppc,               \* parser: "idle", "parsed", "reparsed"
    deployment_id,     \* router: self.deployment_id
    text_length,       \* router: text_length, the token count of the request
    request            \* router: the arguments of openai.ChatCompletion.create, <<>> before the call

vars == <<key_len, cursor, api_key, prompt_spent, completion_spent, long_text,
          pc, site, plist_len, new_str, attempt_count, t_text, result_list,
          best_result_list, retry_count, returned, translated, start, attempts,
          translate_calls, sleeps, backoff, outcomes, used, last_call, billed,
          spent_before, aligned, wpc, wmode, n_items, max_workers, tasks, finish_order,
          results, reply, raw_list, clean_list, again_list, ppc, deployment_id,
          text_length, request>>

pool == <<key_len, cursor, api_key, start>>
ledger == <<prompt_spent, completion_spent>>
reconciler ==
    <<plist_len, result_list, best_result_list, retry_count, returned, sleeps, aligned>>
workers == <<wpc, wmode, n_items, max_workers, tasks, finish_order, results>>
parser == <<reply, raw_list, clean_list, again_list, ppc>>
router == <<deployment_id, text_length, request>>

NoCall == [kind |-> "none", finish |-> "none", raised |-> FALSE]

\* the translator after __init__, no operation called yet
InitTranslator ==
    /\ key_len \in 1..MaxKeys
    /\ cursor = 0
    /\ start = cursor
    /\ api_key = -1
    /\ prompt_spent = 0
    /\ completion_spent = 0
    /\ long_text = <<>>
    /\ pc = "idle"
    /\ site = "initial"
    /\ plist_len = 0
    /\ new_str = <<>>
    /\ attempt_count = 0
    /\ t_text = <<>>
    /\ result_list = <<>>
    /\ best_result_list = <<>>
    /\ retry_count = 0
    /\ returned = <<>>
    /\ translated = <<>>
    /\ attempts = 0
    /\ translate_calls = 0
    /\ sleeps = <<>>
    /\ backoff = <<>>
    /\ outcomes = <<>>
    /\ used = <<>>
    /\ last_call = NoCall
    /\ billed = <<>>
    /\ spent_before = <<0, 0>>
    /\ aligned = FALSE
    /\ wpc = "idle"
    /\ wmode = "none"
    /\ n_items = 0
    /\ max_workers = 0
    /\ tasks = <<>>
    /\ finish_order = <<>>
    /\ results = <<>>

\* the parser has been given nothing yet
ParserIdle ==
    /\ raw_list = <<>>
    /\ clean_list = <<>>
    /\ again_list = <<>>
    /\ ppc = "idle"

\* line 50: self.deployment_id = None
None == "None"

\* no request has been made yet
RouterIdle == request = <<>>

Init ==
    /\ InitTranslator
    /\ ParserIdle
    /\ reply = <<>>
    /\ RouterIdle
    /\ deployment_id = None
    /\ text_length = 0

(***************************************************************************)
(* ChatGPTAPI.rotate_key and ChatGPTAPI.get_translation.                   *)
(***************************************************************************)
\* next(self.keys): self.keys cycles through the pool
keys_next(c, n) == [key |-> c, cursor |-> (c + 1) % n]

\* rotate_key taking two keys from the pool
rotate_key_Twice(c, n) == keys_next(keys_next(c, n).cursor, n)

\* lines 55-56
rotate_key(c, n) == keys_next(c, n)

\* CompletionAfterCall keeping the payload of a call that raises
CompletionAfterCall_Assigned(o) == o.payload

\* lines 132-135: the assignment is not made when the call raises
CompletionAfterCall(o) == IF o.kind = "return" THEN o.payload ELSE EmptyCompletion

\* lines 136-143: the exception is raised again
ReRaises(completion) ==
    \/ "choices" \notin completion.keys
    \/ Len(completion.choices) = 0
    \/ completion.choices[Len(completion.choices)].finish_reason # "length"

\* PromptFare charging the standard rate whatever model served the request
PromptFare_FlatRate(completion) == completion.usage.prompt_tokens * 3

\* lines 146-151, in half units: 3 and 4 per token on a 16k model, else 1.5 and 2
PromptFare(completion) ==
    IF Contains(<<"1", "6", "k">>, completion.model)
    THEN completion.usage.prompt_tokens * 6
    ELSE completion.usage.prompt_tokens * 3

CompletionFare(completion) ==
    IF Contains(<<"1", "6", "k">>, completion.model)
    THEN completion.usage.completion_tokens * 8
    ELSE completion.usage.completion_tokens * 4

\* line 166
FinishedByLength(choice) == choice.finish_reason = "length"

\* LongTextRecord writing the translation instead of the source text
LongTextRecord_Translation(text, translation) == translation

\* lines 167-174: what is written to log/long_text.txt
LongTextRecord(text, translation) == text

\* lines 131-176: the result of get_translation when the remote call ends as
\* o; logged says whether the text is written to log/long_text.txt
get_translation(o) ==
    LET completion == CompletionAfterCall(o)
        choice == completion.choices[Len(completion.choices)]
    IN  IF o.kind = "raise" /\ ReRaises(completion)
        THEN [raised |-> TRUE, t_text |-> <<>>, prompt_fare |-> 0,
              completion_fare |-> 0, logged |-> FALSE]
        ELSE [raised |-> FALSE,
              t_text |-> ExtractText(choice.content),
              prompt_fare |-> PromptFare(completion),
              completion_fare |-> CompletionFare(completion),
              logged |-> FinishedByLength(choice)]

(***************************************************************************)
(* ChatGPTAPI.translate: one pass through the body of its while loop.      *)
(***************************************************************************)
\* line 203: sleep_time = int(60 / self.key_len)
sleep_time(n) == 60 \div n

\* line 191
IsIllegal(text, count) == Contains(DirectTransMarker, text) /\ count = 0

\* line 195
KeepsTail(text, count) == Contains(TransMarker, text) /\ count > 0

\* lines 188-209: get_translation ends as g while attempt_count is count.
\* kind is how the call is classified, status what translate does next:
\* "continue" with another pass, "raise" to its caller, or "return".
\* keeps says that t_text is left as it was.
translate_pass(g, count) ==
    IF g.raised
    THEN [kind |-> "raise", g |-> g, count |-> count + 1, keeps |-> TRUE, t_text |-> <<>>,
          status |-> IF count + 1 = max_attempts THEN "raise"
                     ELSE IF count + 1 < max_attempts THEN "continue"
                     ELSE "return"]
    ELSE IF IsIllegal(g.t_text, count)
    THEN [kind |-> "illegal", g |-> g, count |-> count + 1, keeps |-> FALSE, t_text |-> g.t_text,
          status |-> IF count + 1 < max_attempts THEN "continue" ELSE "return"]
    ELSE [kind |-> "ok", g |-> g, count |-> count, keeps |-> FALSE,
          t_text |-> IF KeepsTail(g.t_text, count)
                     THEN AfterLast(TransMarker, g.t_text)
                     ELSE g.t_text,
          status |-> "return"]

\* translate_pass over the outcomes of the environment, computed once
Passes ==
    [x \in (BatchOutcomes \cup CallOutcomes) \X (0..max_attempts) |->
        translate_pass(get_translation(x[1]), x[2])] @@ <<>>

(***************************************************************************)
(* ChatGPTAPI.get_best_result_list.                                        *)
(***************************************************************************)
\* line 234
AcceptsAtOnce(list, n) == Len(list) = n

\* LoopContinues with the retry cap off by one
LoopContinues_OneMore(count, list, n) == count <= max_retries /\ Len(list) # n

\* line 240
LoopContinues(count, list, n) == count < max_retries /\ Len(list) # n

\* ShouldReplace without the test that the best result overshoots
ShouldReplace_AnyShorter(best, new, n) ==
    \/ Len(new) = n
    \/ (Len(best) < Len(new) /\ Len(new) <= n)
    \/ Len(new) < Len(best)

\* ShouldReplace taking only a longer result that does not overshoot
ShouldReplace_OnlyLonger(best, new, n) == Len(best) < Len(new) /\ Len(new) <= n

\* lines 248-255
ShouldReplace(best, new, n) ==
    \/ Len(new) = n
    \/ (Len(best) < Len(new) /\ Len(new) <= n)
    \/ (Len(new) < Len(best) /\ Len(best) > n)

(***************************************************************************)
(* Actions.                                                                *)
(***************************************************************************)
\* the text of the i-th paragraph of the list handed to translate_list
Paragraph(i) == <<" ", Letters[i], NL, Letters[i], " ">>

\* history kept of a remote call that ended as o
CallRecord(o, g) ==
    [kind |-> o.kind,
     finish |-> IF "choices" \in o.payload.keys
                THEN o.payload.choices[Len(o.payload.choices)].finish_reason
                ELSE "none",
     raised |-> g.raised]

\* the outcomes the environment offers: a length-truncated completion is
\* returned at most MaxLongText times
Offered(env) ==
    {o \in env :
        (o.kind = "return" /\ o.payload.choices[1].finish_reason = "length")
            => Len(long_text) < MaxLongText}

\* what every remote call changes: the pool, the ledger, the sink, the
\* locals of translate and the history (p is the pass the call belongs to)
CallEffects(o, p) ==
    /\ cursor' = rotate_key(cursor, key_len).cursor
    /\ api_key' = rotate_key(cursor, key_len).key
    /\ prompt_spent' = prompt_spent + p.g.prompt_fare
    /\ completion_spent' = completion_spent + p.g.completion_fare
    /\ long_text' = IF p.g.logged
                    THEN Append(long_text, LongTextRecord(new_str, p.g.t_text))
                    ELSE long_text
    /\ attempt_count' = p.count
    /\ t_text' = IF p.keeps THEN t_text ELSE p.t_text
    /\ attempts' = attempts + 1
    /\ outcomes' = Append(outcomes, p.kind)
    /\ backoff' = IF p.kind = "raise" THEN Append(backoff, sleep_time(key_len)) ELSE backoff
    /\ used' = Append(used, rotate_key(cursor, key_len).key)
    /\ last_call' = CallRecord(o, p.g)
    /\ billed' = IF p.g.raised THEN billed
                 ELSE Append(billed, [model |-> o.payload.model, usage |-> o.payload.usage])
    /\ spent_before' = spent_before
    /\ UNCHANGED <<workers, parser, router>>

\* a call of translate begins (lines 184-186)
EnterTranslate(from) ==
    /\ pc' = "translate"
    /\ site' = from
    /\ attempt_count' = 0
    /\ t_text' = <<>>
    /\ outcomes' = <<>>
    /\ backoff' = <<>>
    /\ used' = <<>>
    /\ billed' = <<>>
    /\ spent_before' = <<prompt_spent, completion_spent>>
    /\ UNCHANGED <<workers, parser, router>>

\* translate_list, lines 325-347, up to its first call of translate
TranslateList ==
    /\ pc = "idle"
    /\ wpc = "idle"
    /\ \E n \in 1..MaxN :
        /\ plist_len' = n
        /\ new_str' = build_new_str([i \in 1..n |-> Paragraph(i)])
    /\ EnterTranslate("initial")
    /\ translate_calls' = 1
    /\ UNCHANGED <<pool, ledger, long_text, result_list, best_result_list,
                   retry_count, returned, translated, attempts, sleeps, last_call,
                   aligned>>

\* translate(text) called on its own
Translate ==
    /\ pc = "idle"
    /\ wpc = "idle"
    /\ new_str' = build_new_str(<<Paragraph(1)>>)
    /\ EnterTranslate("direct")
    /\ translate_calls' = 1
    /\ UNCHANGED <<pool, ledger, long_text, reconciler, translated, attempts, last_call>>

\* translate, lines 198-209: get_translation raised
RemoteCallFails(env) ==
    /\ pc = "translate"
    /\ \E o \in Offered(env) :
        \E p \in {Passes[<<o, attempt_count>>]} :
        /\ p.kind = "raise"
        /\ p.status # "return"
        /\ CallEffects(o, p)
        /\ pc' = IF p.status = "raise" THEN "raised" ELSE "translate"
    /\ UNCHANGED <<key_len, start, site, new_str, reconciler, translated, translate_calls>>

\* translate, lines 191-194: the response is illegal on the first attempt
ResponseIllegal(env) ==
    /\ pc = "translate"
    /\ \E o \in Offered(env) :
        \E p \in {Passes[<<o, attempt_count>>]} :
        /\ p.kind = "illegal"
        /\ p.status = "continue"
        /\ CallEffects(o, p)
    /\ UNCHANGED <<key_len, start, pc, site, new_str, reconciler, translated, translate_calls>>

\* translate returns to a direct caller (lines 211-218)
DirectResult(env) ==
    /\ pc = "translate"
    /\ site = "direct"
    /\ \E o \in Offered(env) :
        \E p \in {Passes[<<o, attempt_count>>]} :
        /\ p.status = "return"
        /\ CallEffects(o, p)
        /\ translated' = p.t_text
    /\ pc' = "done"
    /\ UNCHANGED <<key_len, start, site, new_str, reconciler, translate_calls>>

\* translate returns to line 347; translate_and_split_lines, then
\* get_best_result_list up to its first sleep (lines 234-240), and when it
\* returns at once, the rest of translate_list (lines 360-368)
InitialResult(env) ==
    /\ pc = "translate"
    /\ site = "initial"
    /\ \E o \in Offered(env) :
        \E p \in {Passes[<<o, attempt_count>>]} :
        \E lines \in {split_lines(p.t_text)} :
        /\ p.status = "return"
        /\ CallEffects(o, p)
        /\ result_list' = lines
        /\ aligned' = (aligned \/ Len(lines) = plist_len)
        /\ retry_count' = 0
        /\ IF AcceptsAtOnce(lines, plist_len)
           THEN /\ best_result_list' = best_result_list
                /\ returned' = strip_ordinals(lines)
                /\ pc' = "done"
           ELSE /\ best_result_list' = lines
                /\ IF LoopContinues(0, lines, plist_len)
                   THEN returned' = returned /\ pc' = "sleep"
                   ELSE returned' = strip_ordinals(lines) /\ pc' = "done"
    /\ UNCHANGED <<key_len, start, site, plist_len, new_str, translated,
                   translate_calls, sleeps>>

\* get_best_result_list, lines 241-247: sleep, count the retry, call
\* translate_and_split_lines again
SleepAndRetry ==
    /\ pc = "sleep"
    /\ sleeps' = Append(sleeps, sleep_dur)
    /\ retry_count' = retry_count + 1
    /\ translate_calls' = translate_calls + 1
    /\ EnterTranslate("retry")
    /\ UNCHANGED <<pool, ledger, long_text, plist_len, new_str, result_list,
                   best_result_list, returned, translated, attempts, last_call,
                   aligned>>

\* translate returns to line 247; lines 248-258, and when the loop ends,
\* the rest of translate_list (lines 360-368)
RetryResult(env) ==
    /\ pc = "translate"
    /\ site = "retry"
    /\ \E o \in Offered(env) :
        \E p \in {Passes[<<o, attempt_count>>]} :
        \E lines \in {split_lines(p.t_text)} :
        LET best == IF ShouldReplace(best_result_list, lines, plist_len)
                    THEN lines
                    ELSE best_result_list
        IN
        /\ p.status = "return"
        /\ CallEffects(o, p)
        /\ result_list' = lines
        /\ aligned' = (aligned \/ Len(lines) = plist_len)
        /\ best_result_list' = best
        /\ IF LoopContinues(retry_count, lines, plist_len)
           THEN returned' = returned /\ pc' = "sleep"
           ELSE returned' = strip_ordinals(best) /\ pc' = "done"
    /\ UNCHANGED <<key_len, start, site, plist_len, new_str, retry_count,
                   translated, translate_calls, sleeps>>

\* translate_list on a batch of paragraphs
Next ==
    \/ TranslateList
    \/ RemoteCallFails(BatchOutcomes)
    \/ ResponseIllegal(BatchOutcomes)
    \/ InitialResult(BatchOutcomes)
    \/ SleepAndRetry
    \/ RetryResult(BatchOutcomes)

Spec == Init /\ [][Next]_vars

\* translate on one text
NextCall ==
    \/ Translate
    \/ RemoteCallFails(CallOutcomes)
    \/ ResponseIllegal(CallOutcomes)
    \/ DirectResult(CallOutcomes)

SpecCall == Init /\ [][NextCall]_vars

(***************************************************************************)
(* utils.process_concurrently and utils.process_concurrently_async, with   *)
(* workers that share one translator: func(item) makes one remote call for *)
(* item and charges it to the ledger as get_translation does.              *)
(***************************************************************************)
\* everything of the translator but the two totals
translator ==
    <<key_len, cursor, api_key, long_text, pc, site, plist_len, new_str,
      attempt_count, t_text, result_list, best_result_list, retry_count, returned,
      translated, start, attempts, translate_calls, sleeps, backoff, outcomes,
      used, last_call, billed, spent_before, aligned>>

\* the completion the service returns for item i
ItemCompletion(i) == Completion(<<Letters[i]>>, "stop", ModelStd, Usage(i, 2 * i))

\* func(item) when the remote call returns
func(i) == get_translation(Returns(ItemCompletion(i)))

\* a task before executor.submit / before limited_func runs
NewTask == [stage |-> "pending", loaded |-> 0, invoked |-> 0, result |-> <<>>]

\* invocations of func in progress
InFlight(ts) ==
    Cardinality({i \in DOMAIN ts :
        ts[i].stage \in {"call", "loaded_prompt", "stored_prompt", "loaded_completion"}})

\* MayStart without the limit
MayStart_Unbounded(inflight, cap) == TRUE

\* utils.py line 191 (a pool of max_workers threads) and lines 208-211 (a
\* semaphore of max_concurrent permits): a free thread or permit is needed
MayStart(inflight, cap) == inflight < cap

\* Gather listing the results in the order the invocations ended
Gather_AsCompleted(ts, order) == [k \in 1..Len(order) |-> ts[order[k]].result]

\* utils.py line 192, list(executor.map(func, items)), and line 215,
\* asyncio.gather(*tasks): the results in the order of the items
Gather(ts, order) == [i \in 1..Len(ts) |-> ts[i].result]

\* utils.py lines 191-192: the items are submitted to the executor
ProcessConcurrently ==
    /\ wpc = "idle"
    /\ pc = "idle"
    /\ \E n \in 1..MaxItems, cap \in 1..MaxWorkers :
        /\ n_items' = n
        /\ max_workers' = cap
        /\ tasks' = [i \in 1..n |-> NewTask]
    /\ wmode' = "threads"
    /\ wpc' = "running"
    /\ UNCHANGED <<translator, parser, router, ledger, finish_order, results>>

\* utils.py lines 208-215: the tasks are created and gathered
ProcessConcurrentlyAsync ==
    /\ wpc = "idle"
    /\ pc = "idle"
    /\ \E n \in 1..MaxItems, cap \in 1..MaxWorkers :
        /\ n_items' = n
        /\ max_workers' = cap
        /\ tasks' = [i \in 1..n |-> NewTask]
    /\ wmode' = "async"
    /\ wpc' = "running"
    /\ UNCHANGED <<translator, parser, router, ledger, finish_order, results>>

\* a worker thread takes the next work item / a task acquires the semaphore:
\* func(items[i]) is called (the items are taken in their order)
Start(i) ==
    /\ wpc \in {"running", "failing", "raised"}
    /\ wpc = "raised" => wmode = "async"
    /\ tasks[i].stage = "pending"
    /\ \A j \in 1..(i - 1) : tasks[j].stage # "pending"
    /\ MayStart(InFlight(tasks), max_workers)
    /\ tasks' = [tasks EXCEPT ![i].stage = "call", ![i].invoked = @ + 1]
    /\ UNCHANGED <<translator, parser, router, ledger, wpc, wmode, n_items, max_workers,
                   finish_order, results>>

\* the remote call of func(items[i]) raises, and so does func
FuncRaises(i) ==
    /\ wpc # "idle"
    /\ tasks[i].stage = "call"
    /\ tasks' = [tasks EXCEPT ![i].stage = "failed"]
    /\ finish_order' = Append(finish_order, i)
    /\ UNCHANGED <<translator, parser, router, ledger, wpc, wmode, n_items, max_workers, results>>

\* a thread: the remote call returns and line 147 (or 150) loads
\* self.prompt_spent
LoadPrompt(i) ==
    /\ wmode = "threads"
    /\ tasks[i].stage = "call"
    /\ tasks' = [tasks EXCEPT ![i].stage = "loaded_prompt", ![i].loaded = prompt_spent]
    /\ UNCHANGED <<translator, parser, router, ledger, wpc, wmode, n_items, max_workers,
                   finish_order, results>>

\* a thread: line 147 (or 150) stores self.prompt_spent
StorePrompt(i) ==
    /\ wmode = "threads"
    /\ tasks[i].stage = "loaded_prompt"
    /\ prompt_spent' = tasks[i].loaded + func(i).prompt_fare
    /\ tasks' = [tasks EXCEPT ![i].stage = "stored_prompt"]
    /\ UNCHANGED <<translator, parser, router, completion_spent, wpc, wmode, n_items, max_workers,
                   finish_order, results>>

\* a thread: line 148 (or 151) loads self.completion_spent
LoadCompletion(i) ==
    /\ wmode = "threads"
    /\ tasks[i].stage = "stored_prompt"
    /\ tasks' = [tasks EXCEPT ![i].stage = "loaded_completion",
                              ![i].loaded = completion_spent]
    /\ UNCHANGED <<translator, parser, router, ledger, wpc, wmode, n_items, max_workers,
                   finish_order, results>>

\* a thread: line 148 (or 151) stores self.completion_spent, and func returns
StoreCompletion(i) ==
    /\ wmode = "threads"
    /\ tasks[i].stage = "loaded_completion"
    /\ completion_spent' = tasks[i].loaded + func(i).completion_fare
    /\ tasks' = [tasks EXCEPT ![i].stage = "done", ![i].result = func(i).t_text]
    /\ finish_order' = Append(finish_order, i)
    /\ UNCHANGED <<translator, parser, router, prompt_spent, wpc, wmode, n_items, max_workers, results>>

\* a coroutine: the remote call returns and lines 146-176 run without
\* yielding to the event loop
FuncReturnsAsync(i) ==
    /\ wmode = "async"
    /\ tasks[i].stage = "call"
    /\ prompt_spent' = prompt_spent + func(i).prompt_fare
    /\ completion_spent' = completion_spent + func(i).completion_fare
    /\ tasks' = [tasks EXCEPT ![i].stage = "done", ![i].result = func(i).t_text]
    /\ finish_order' = Append(finish_order, i)
    /\ UNCHANGED <<translator, parser, router, wpc, wmode, n_items, max_workers, results>>

\* utils.py lines 192-193 and 215-216: every result is there, the list is
\* returned
Return ==
    /\ wpc = "running"
    /\ \A i \in 1..n_items : tasks[i].stage = "done"
    /\ results' = Gather(tasks, finish_order)
    /\ wpc' = "returned"
    /\ UNCHANGED <<translator, parser, router, ledger, wmode, n_items, max_workers, tasks, finish_order>>

\* utils.py line 192: executor.map reaches, in the order of the items, a
\* result that is an exception, and cancels the work items not yet started
CancelPending ==
    /\ wpc = "running"
    /\ wmode = "threads"
    /\ \E k \in 1..n_items :
        /\ tasks[k].stage = "failed"
        /\ \A j \in 1..(k - 1) : tasks[j].stage = "done"
    /\ tasks' = [i \in 1..n_items |->
                    IF tasks[i].stage = "pending"
                    THEN [tasks[i] EXCEPT !.stage = "cancelled"]
                    ELSE tasks[i]]
    /\ wpc' = "failing"
    /\ UNCHANGED <<translator, parser, router, ledger, wmode, n_items, max_workers, finish_order, results>>

\* utils.py line 191: leaving the with block waits for the running work
\* items, then the exception leaves process_concurrently
ExecutorRaises ==
    /\ wpc = "failing"
    /\ InFlight(tasks) = 0
    /\ wpc' = "raised"
    /\ UNCHANGED <<translator, parser, router, ledger, wmode, n_items, max_workers, tasks,
                   finish_order, results>>

\* utils.py line 215: asyncio.gather raises the first exception of a task to
\* process_concurrently_async; the other tasks are not cancelled
GatherRaises ==
    /\ wpc = "running"
    /\ wmode = "async"
    /\ \E k \in 1..n_items : tasks[k].stage = "failed"
    /\ wpc' = "raised"
    /\ UNCHANGED <<translator, parser, router, ledger, wmode, n_items, max_workers, tasks,
                   finish_order, results>>

NextWorkers ==
    \/ ProcessConcurrently
    \/ ProcessConcurrentlyAsync
    \/ \E i \in 1..n_items : Start(i)
    \/ \E i \in 1..n_items : FuncRaises(i)
    \/ \E i \in 1..n_items : LoadPrompt(i)
    \/ \E i \in 1..n_items : StorePrompt(i)
    \/ \E i \in 1..n_items : LoadCompletion(i)
    \/ \E i \in 1..n_items : StoreCompletion(i)
    \/ \E i \in 1..n_items : FuncReturnsAsync(i)
    \/ Return
    \/ CancelPending
    \/ ExecutorRaises
    \/ GatherRaises

SpecWorkers == Init /\ [][NextWorkers]_vars

(***************************************************************************)
(* The response parser on its own: translate_and_split_lines (lines        *)
(* 222-224) and the ordinal stripping of translate_list (line 367), applied *)
(* to a text and then to their own output.                                  *)
(***************************************************************************)
\* the characters of the texts handed to the parser
ParseAlphabet == {"3", "(", ")", ".", " ", NL, "h"}

\* "hello"
Hello == <<"h", "e", "l", "l", "o">>

\* the texts handed to the parser: every text of at most MaxText characters,
\* and the marked forms of "hello"
ParseInputs ==
    UNION {[1..k -> ParseAlphabet] : k \in 0..MaxText}
    \cup {<<"(", "3", ")", " ">> \o Hello, <<"3", ".", " ">> \o Hello,
          <<"3", " ">> \o Hello, Hello}

InitParse ==
    /\ InitTranslator
    /\ ParserIdle
    /\ reply \in ParseInputs
    /\ RouterIdle
    /\ deployment_id = None
    /\ text_length = 0

\* everything but the parser
not_parser == <<translator, ledger, workers, router>>

\* lines 222-224, then line 367
Parse ==
    /\ ppc = "idle"
    /\ raw_list' = split_lines(reply)
    /\ clean_list' = strip_ordinals(split_lines(reply))
    /\ ppc' = "parsed"
    /\ UNCHANGED <<not_parser, reply, again_list>>

\* the same, applied to the list returned, joined with line breaks
Reparse ==
    /\ ppc = "parsed"
    /\ again_list' = strip_ordinals(split_lines(Join(<<NL>>, clean_list)))
    /\ ppc' = "reparsed"
    /\ UNCHANGED <<not_parser, reply, raw_list, clean_list>>

NextParse == Parse \/ Reparse

SpecParse == InitParse /\ [][NextParse]_vars

(***************************************************************************)
(* Model routing in create_chat_completion_2pass (lines 85-104).           *)
(***************************************************************************)
\* the deployment identifiers: none, the empty string, a deployment
DeploymentIds == {None, "", "my-deployment"}

InitRoute ==
    /\ InitTranslator
    /\ ParserIdle
    /\ reply = <<>>
    /\ RouterIdle
    /\ deployment_id \in DeploymentIds
    /\ text_length \in 0..MaxTokens

\* line 85: if self.deployment_id
IsSet(id) == id \notin {None, ""}

\* FitsStandard sending a request of exactly 1200 tokens to the 16k model
FitsStandard_Below(n) == n < 1200

\* line 93: text_length<=1200
FitsStandard(n) == n <= 1200

\* lines 85-104: the engine or model the completion is asked of
Route(id, n) ==
    IF IsSet(id) THEN [engine |-> id]
    ELSE IF FitsStandard(n) THEN [model |-> "gpt-3.5-turbo"]
    ELSE [model |-> "gpt-3.5-turbo-16k"]

\* create_chat_completion_2pass makes its request
CreateChatCompletion2pass ==
    /\ request = <<>>
    /\ request' = Route(deployment_id, text_length)
    /\ UNCHANGED <<translator, ledger, workers, parser, deployment_id, text_length>>

NextRoute == CreateChatCompletion2pass

SpecRoute == InitRoute /\ [][NextRoute]_vars

(***************************************************************************)
(* Properties.                                                             *)
(***************************************************************************)
\* positions of text that hold the first non-blank character of a line
FirstChars(text) ==
    {i \in 1..Len(text) :
        /\ text[i] \notin Whitespace
        /\ \A j \in 1..(i - 1) :
            (\A k \in j..(i - 1) : text[k] \notin LineBreaks) => text[j] \in Whitespace}

\* the end of the line that holds position i
LineEnd(text, i) ==
    LET brk == {k \in i..Len(text) : text[k] \in LineBreaks} IN
    IF brk = {} THEN Len(text) ELSE SetMin(brk) - 1

\* the i-th smallest element of a set of numbers
RECURSIVE Nth(_, _)
Nth(S, i) == IF i = 1 THEN SetMin(S) ELSE Nth(S \ {SetMin(S)}, i - 1)

\* the characters of an ordinal marker and the blanks after it
MarkerChars == Digits \cup Whitespace \cup {"(", ")", "."}

\* list has one element per non-blank line of text, the i-th taken from the
\* i-th non-blank line: it is that line without a leading ordinal marker
TakenInOrder(list, text) ==
    /\ Len(list) = Cardinality(FirstChars(text))
    /\ \A i \in 1..Len(list) :
        LET from == Nth(FirstChars(text), i)
            line == Strip(Slice(text, from, LineEnd(text, from)))
            cut == Len(line) - Len(list[i])
        IN  /\ cut >= 0
            /\ list[i] = Slice(line, cut + 1, Len(line))
            /\ \A k \in 1..cut : line[k] \in MarkerChars
            /\ list[i] # <<>> => list[i][1] \notin MarkerChars

\* the first remote call of translate_list has just returned
FirstCallReturns ==
    /\ site = "initial"
    /\ attempts = 0
    /\ attempts' = 1
    /\ last_call'.kind = "return"

\* translate_list returns at this step, without a retry and after one call
ReturnsAtOnce ==
    /\ pc' = "done"
    /\ Len(returned') = plist_len
    /\ TakenInOrder(returned', t_text')
    /\ retry_count' = 0
    /\ sleeps' = <<>>
    /\ translate_calls' = 1
    /\ attempts' = 1

\* C1 as stated: when the first remote call returns text that parses into
\* exactly plist_len non-blank segments, translate_list returns the
\* plist_len segments in order, with retry count 0, after that one call.
C1_AsStated ==
    [][(FirstCallReturns /\ Cardinality(FirstChars(t_text')) = plist_len)
        => ReturnsAtOnce]_vars

\* C1 amended: when the first remote call returns text that does not contain
\* "direct_trans": and parses into exactly plist_len non-blank segments,
\* translate_list returns the plist_len segments in order, with retry count
\* 0, no sleep, and exactly one remote call.
C1_FirstMatchReturnsAtOnce ==
    [][(/\ FirstCallReturns
        /\ Cardinality(FirstChars(t_text')) = plist_len
        /\ ~Contains(DirectTransMarker, t_text'))
        => ReturnsAtOnce]_vars

C1_Witness ==
    /\ pc = "done"
    /\ attempts = 1
    /\ retry_count = 0
    /\ plist_len = 2
    /\ returned = <<<<"a">>, <<"b">>>>

\* translate has just returned to the retry loop of get_best_result_list
RetryReturns ==
    /\ pc = "translate"
    /\ site = "retry"
    /\ pc' \in {"sleep", "done"}

\* the three cases of C2 for a new result of length m, a best result of
\* length b and a target n
C2_Cases(b, m, n) ==
    \/ m = n
    \/ (b < m /\ m <= n)
    \/ (m < b /\ b > n)

\* C2: in each iteration of the retry loop the new result replaces
\* best_result_list exactly in the three cases, and best_result_list is left
\* unchanged in every other case.
C2_ReplacementRule ==
    [][RetryReturns =>
        IF C2_Cases(Len(best_result_list), Len(result_list'), plist_len)
        THEN best_result_list' = result_list'
        ELSE best_result_list' = best_result_list]_vars

\* an overshooting best result has been replaced by a shorter one that
\* still overshoots
C2_Witness ==
    /\ pc = "sleep"
    /\ retry_count = 2
    /\ plist_len = 1
    /\ Len(best_result_list) = 2
    /\ result_list = <<Segment(1, TRUE), Segment(2, TRUE)>>
    /\ best_result_list = result_list

Dist(list, n) == IF Len(list) >= n THEN Len(list) - n ELSE n - Len(list)

\* C3: no replacement of best_result_list in the retry loop makes
\* |len(best_result_list) - plist_len| larger than it was.
C3_NeverRegresses ==
    [][RetryReturns =>
        Dist(best_result_list', plist_len) <= Dist(best_result_list, plist_len)]_vars

\* C4: get_best_result_list makes at most 15 re-translations, one sleep
\* before each; it goes on to another one only while the latest result does
\* not have plist_len segments, and the retry count it returns is the number
\* of re-translations made.
C4_BoundedRetries ==
    /\ retry_count <= 15
    /\ sleeps = [i \in 1..retry_count |-> 6]
    /\ pc # "idle" => translate_calls = 1 + retry_count
    /\ pc = "sleep" => (Len(result_list) # plist_len /\ retry_count < 15)
    /\ pc = "done" => (Len(result_list) = plist_len \/ retry_count = 15)
    /\ (pc = "done" /\ retry_count = 0) => Len(result_list) = plist_len

\* the retry cap is exhausted without a match
C4_Witness ==
    /\ pc = "done"
    /\ retry_count = 15
    /\ Len(sleeps) = 15
    /\ Len(result_list) # plist_len

AllRaised == \A i \in 1..Len(outcomes) : outcomes[i] = "raise"

\* C5: when every remote call of a translate call raises, the call makes
\* exactly 3 attempts, each with the next credential of the pool (modulo its
\* size), and raises after the 3rd; there is no 4th attempt.
C5_ThreeAttemptsThenRaise ==
    /\ Len(outcomes) <= 3
    /\ (AllRaised /\ Len(outcomes) \in {1, 2}) => pc = "translate"
    /\ (AllRaised /\ Len(outcomes) = 3) => pc = "raised"
    /\ Len(used) = Len(outcomes)
    /\ \A j \in 1..Len(used) : used[j] = (used[1] + j - 1) % key_len
    /\ used # <<>> => api_key = used[Len(used)]

\* three failures on a pool of two keys
C5_Witness ==
    /\ pc = "raised"
    /\ key_len = 2
    /\ outcomes = <<"raise", "raise", "raise">>
    /\ used = <<0, 1, 0>>

\* C6: translate raises to its caller only after 3 consecutive failures of
\* the remote call within that call of translate.
C6_RaisesOnlyAfterThreeFailures ==
    pc = "raised" => outcomes = <<"raise", "raise", "raise">>

\* the steps translate_list can still take: 3 remote calls and one sleep for
\* each of the 15 retries left, and the remote calls left in the current
\* call of translate
StepsLeft ==
    CASE pc = "idle" -> 64
      [] pc = "translate" -> 4 * (15 - retry_count) + (3 - Len(outcomes))
      [] pc = "sleep" -> 4 * (15 - retry_count)
      [] OTHER -> 0

\* C7: every step of translate_list brings its end (it returns or raises)
\* closer, so it ends; it makes at most 3 remote calls per call of
\* translate, at most 1 + 15 calls of translate and at most 48 remote calls.
C7_BoundedRecovery ==
    [][/\ StepsLeft' < StepsLeft
       /\ StepsLeft' >= 0
       /\ Len(outcomes') <= 3
       /\ translate_calls' <= 16
       /\ attempts' <= 48
       /\ attempts' <= 3 * translate_calls']_vars

\* all 48 remote calls are made
C7_Witness ==
    /\ pc \in {"done", "raised"}
    /\ attempts = 48
    /\ translate_calls = 16

\* C8: after k remote calls the cursor has advanced k positions modulo the
\* pool size, and the j-th call (counted from 0) used the key at position
\* (start + j) mod key_len.
C8_CursorAdvancesOncePerCall ==
    /\ cursor = (start + attempts) % key_len
    /\ attempts > 0 => api_key = (start + attempts - 1) % key_len
    /\ Len(used) <= attempts
    /\ \A j \in 1..Len(used) :
        used[j] = (start + (attempts - Len(used)) + j - 1) % key_len

\* a failed call, a successful call and a re-translation on a pool of two keys
C8_Witness ==
    /\ key_len = 2
    /\ retry_count = 1
    /\ attempts = 3
    /\ outcomes = <<"ok">>
    /\ cursor = 1

\* a remote call is made at this step
RemoteCall == attempts' = attempts + 1

\* C9: a completion returned with finish reason "length" is accepted (the
\* call does not raise) and the source text is appended to the long-text
\* sink; nothing else writes to the sink.
C9_LengthAcceptedAndLogged ==
    [][IF RemoteCall /\ last_call'.kind = "return" /\ last_call'.finish = "length"
       THEN /\ ~last_call'.raised
            /\ outcomes'[Len(outcomes')] # "raise"
            /\ long_text' = Append(long_text, new_str)
       ELSE long_text' = long_text]_vars

C9_Witness ==
    /\ pc = "done"
    /\ last_call = [kind |-> "return", finish |-> "length", raised |-> FALSE]
    /\ new_str # <<>>
    /\ long_text = <<new_str>>
    /\ translated # new_str

\* C10: when the remote call raises and a partial payload exists whose last
\* choice has finish reason "length", get_translation does not raise.
C10_PartialLengthIsDegradedSuccess ==
    (last_call.kind = "raise" /\ last_call.finish = "length") => ~last_call.raised

\* an exception leaves translate_list at this step
Propagates == pc # "raised" /\ pc' = "raised"

\* C11: translate_list propagates an exception only when a call of translate
\* uses up its 3 attempts on a remote call that raises; a result whose length
\* differs from plist_len never raises: when the initial result and all 15
\* re-translations miss plist_len, the best result is returned.
C11_MismatchNeverRaises ==
    [][/\ Propagates =>
            /\ pc = "translate"
            /\ attempt_count' = 3
            /\ outcomes'[Len(outcomes')] = "raise"
       /\ (RetryReturns /\ retry_count = 15) =>
            /\ pc' = "done"
            /\ returned' = strip_ordinals(best_result_list')]_vars

\* no result had plist_len segments and the best one, one segment short, is
\* returned
C11_Witness ==
    /\ pc = "done"
    /\ retry_count = 15
    /\ plist_len = 2
    /\ Len(result_list) # plist_len
    /\ Len(best_result_list) = 1
    /\ returned = <<<<"a">>>>

\* twice the amounts C12 states for a call served by model with usage u (the
\* totals are kept in half units): 3 and 4 per token on the long-context
\* model, 1.5 and 2 otherwise
C12_Prompt(model, u) ==
    IF model = Model16k THEN 2 * (u.prompt_tokens * 3) ELSE u.prompt_tokens * 3

C12_Completion(model, u) ==
    IF model = Model16k THEN 2 * (u.completion_tokens * 4) ELSE 2 * (u.completion_tokens * 2)

RECURSIVE C12_SumPrompt(_)
C12_SumPrompt(calls) ==
    IF calls = <<>> THEN 0
    ELSE C12_Prompt(calls[1].model, calls[1].usage) + C12_SumPrompt(Tail(calls))

RECURSIVE C12_SumCompletion(_)
C12_SumCompletion(calls) ==
    IF calls = <<>> THEN 0
    ELSE C12_Completion(calls[1].model, calls[1].usage) + C12_SumCompletion(Tail(calls))

\* C12: each total is what it was before plus the sum of the contributions
\* of the calls that did not raise: prompt_tokens x 3 and completion_tokens
\* x 4 on the long-context model, x 1.5 and x 2 otherwise; usage {100, 50}
\* on the long-context model adds 100*3 + 50*4 in all.
C12_LedgerIsAdditive ==
    /\ prompt_spent = spent_before[1] + C12_SumPrompt(billed)
    /\ completion_spent = spent_before[2] + C12_SumCompletion(billed)
    /\ (Len(billed) = 1 /\ billed[1] = [model |-> Model16k, usage |-> Usage(100, 50)])
        => prompt_spent + completion_spent
            = spent_before[1] + spent_before[2] + 2 * (100 * 3 + 50 * 4)

\* a call served by the long-context model and one served by the standard
\* model have been charged
C12_Witness ==
    /\ pc = "done"
    /\ Len(billed) = 2
    /\ billed[1] = [model |-> Model16k, usage |-> Usage(100, 50)]
    /\ billed[2] = [model |-> ModelStd, usage |-> Usage(7, 3)]
    /\ prompt_spent = 2 * 300 + 21
    /\ completion_spent = 2 * 200 + 2 * 6

\* C13: no step lowers or resets a total; a total changes only at a remote
\* call that returned, and a remote call that raises leaves both unchanged.
C13_LedgerMonotone ==
    [][/\ prompt_spent' >= prompt_spent
       /\ completion_spent' >= completion_spent
       /\ <<prompt_spent', completion_spent'>> # <<prompt_spent, completion_spent>>
            => (RemoteCall /\ last_call'.kind = "return")
       /\ (RemoteCall /\ last_call'.kind = "raise")
            => <<prompt_spent', completion_spent'>> = <<prompt_spent, completion_spent>>]_vars

\* a call that raises, with a partial payload that reports usage, follows a
\* call that was charged
C13_Witness ==
    /\ outcomes = <<"illegal", "raise">>
    /\ last_call = [kind |-> "raise", finish |-> "length", raised |-> TRUE]
    /\ Len(billed) = 1
    /\ prompt_spent > 0
    /\ prompt_spent = C12_Prompt(billed[1].model, billed[1].usage)

\* the invocations of func are over and the call has ended
WorkersEnded ==
    /\ wpc \in {"returned", "raised"}
    /\ \A i \in 1..n_items : tasks[i].stage \in {"done", "failed", "cancelled"}

\* sum of f over the items whose remote call returned
RECURSIVE C14_Sum(_, _)
C14_Sum(f, i) ==
    IF i = 0 THEN 0
    ELSE (IF tasks[i].stage = "done" THEN f[i] ELSE 0) + C14_Sum(f, i - 1)

\* C14: when workers that share one translator have made their remote calls
\* through process_concurrently(_async), each total is the sum of the
\* contributions of the calls that returned, in every interleaving.
C14_NoLostUpdate ==
    WorkersEnded =>
        /\ prompt_spent =
            C14_Sum([i \in 1..n_items |-> C12_Prompt(ModelStd, Usage(i, 2 * i))], n_items)
        /\ completion_spent =
            C14_Sum([i \in 1..n_items |-> C12_Completion(ModelStd, Usage(i, 2 * i))], n_items)

\* the steps left: those of each invocation of func, then the end of the call
WorkLeft ==
    LET rank(stage) ==
            CASE stage = "pending" -> 5
              [] stage = "call" -> 4
              [] stage = "loaded_prompt" -> 3
              [] stage = "stored_prompt" -> 2
              [] stage = "loaded_completion" -> 1
              [] OTHER -> 0
        RECURSIVE left(_)
        left(i) == IF i = 0 THEN 0 ELSE rank(tasks[i].stage) + left(i - 1)
    IN  CASE wpc = "idle" -> 5 * MaxItems + 3
          [] wpc = "running" -> left(n_items) + 2
          [] wpc = "failing" -> left(n_items) + 1
          [] OTHER -> left(n_items)

\* at most max_workers (max_concurrent) invocations of func are in progress
\* and no item is handed to func twice
C15_Capped ==
    /\ InFlight(tasks') <= max_workers'
    /\ \A i \in 1..n_items' : tasks'[i].invoked <= 1
    /\ \A i \in 1..n_items' : tasks'[i].invoked = 0 <=> tasks'[i].stage \in {"pending", "cancelled"}

C16_ResultsInItemOrder ==
    wpc = "returned" =>
        /\ Len(results) = n_items
        /\ \A i \in 1..n_items : results[i] = <<Letters[i]>>

\* the invocations ended in another order than the items
C16_Witness ==
    /\ wpc = "returned"
    /\ n_items = 3
    /\ finish_order = <<2, 1, 3>>
    /\ results = <<<<"a">>, <<"b">>, <<"c">>>>

\* C17: parsing the joined output of a parse gives the same list again.
C17_ParseIdempotent == ppc = "reparsed" => again_list = clean_list

\* s[from..to] is a non-empty run of digits
C18_DigitsAt(s, from, to) ==
    /\ from <= to
    /\ to <= Len(s)
    /\ \A k \in from..to : s[k] \in Digits

\* the lengths m such that s[1..m] is a marker "(n)", "n." or "n", n being
\* all the digits there are
C18_Markers(s) ==
    {m \in 1..Len(s) :
        \/ s[1] = "(" /\ s[m] = ")" /\ C18_DigitsAt(s, 2, m - 1)
        \/ s[m] = "." /\ C18_DigitsAt(s, 1, m - 1)
        \/ /\ C18_DigitsAt(s, 1, m)
           /\ m < Len(s) => s[m + 1] \notin (Digits \cup {"."})}

\* s without its first m characters and the whitespace that follows them
C18_Without(s, m) ==
    LET rest == {k \in (m + 1)..Len(s) : s[k] \notin Whitespace} IN
    IF rest = {} THEN <<>> ELSE Slice(s, SetMin(rest), Len(s))

\* C18: line 367 removes from each segment a leading marker "(n)", "n." or
\* "n" and the whitespace after it, and leaves a segment without a leading
\* marker as it is; "(3) hello", "3. hello" and "3 hello" become "hello".
C18_OrdinalStripped ==
    ppc # "idle" =>
        /\ Len(clean_list) = Len(raw_list)
        /\ \A i \in 1..Len(raw_list) :
            /\ Cardinality(C18_Markers(raw_list[i])) <= 1
            /\ \A m \in C18_Markers(raw_list[i]) :
                clean_list[i] = C18_Without(raw_list[i], m)
            /\ C18_Markers(raw_list[i]) = {} => clean_list[i] = raw_list[i]
        /\ reply \in {<<"(", "3", ")", " ">> \o Hello, <<"3", ".", " ">> \o Hello,
                       <<"3", " ">> \o Hello, Hello}
            => clean_list = <<Hello>>

\* "3. hello" has become "hello"
C18_Witness ==
    /\ ppc = "parsed"
    /\ reply = <<"3", ".", " ">> \o Hello
    /\ raw_list = <<reply>>
    /\ clean_list = <<Hello>>

\* C19: without a deployment identifier a request of more than 1200 tokens
\* goes to the long-context model and one of at most 1200 tokens to the
\* standard model; with a deployment identifier every request goes to the
\* deployment, whatever its token count.
C19_Routing ==
    request # <<>> =>
        IF deployment_id \notin {None, ""}
        THEN request = [engine |-> deployment_id]
        ELSE IF text_length > 1200
        THEN request = [model |-> "gpt-3.5-turbo-16k"]
        ELSE request = [model |-> "gpt-3.5-turbo"]

\* a request of exactly 1200 tokens goes to the standard model
C19_Witness ==
    /\ deployment_id = None
    /\ text_length = 1200
    /\ request = [model |-> "gpt-3.5-turbo"]

\* the list get_best_result_list returns: result_list when it has plist_len
\* segments at once (line 235), else best_result_list (line 258)
C20_Best ==
    IF retry_count = 0 /\ Len(result_list) = plist_len
    THEN result_list
    ELSE best_result_list

\* b is a at the end of a longer or equal text: what was cut is a marker
C20_TailOf(a, b) ==
    /\ Len(a) <= Len(b)
    /\ a = Slice(b, Len(b) - Len(a) + 1, Len(b))
    /\ \A k \in 1..(Len(b) - Len(a)) : b[k] \in MarkerChars

\* C20: translate_list returns a list of plist_len elements exactly when the
\* initial result or a re-translation had plist_len segments; the list it
\* returns has the length and the order of the best result, each element
\* being that of the best result without its ordinal marker.
C20_AlignedIffMatched ==
    pc = "done" =>
        /\ Len(returned) = plist_len <=> aligned
        /\ Len(returned) = Len(C20_Best)
        /\ \A i \in 1..Len(returned) : C20_TailOf(returned[i], C20_Best[i])

\* a re-translation with plist_len segments replaces a best result that
\* overshoots
C20_Witness ==
    /\ pc = "done"
    /\ plist_len = 2
    /\ retry_count = 2
    /\ aligned
    /\ best_result_list = <<Segment(1, TRUE), Segment(2, TRUE)>>
    /\ returned = <<<<"a">>, <<"b">>>>

\* C21: in the retry loop, once best_result_list has at most plist_len
\* segments it keeps at most plist_len and never gets shorter: it is replaced
\* only by a strictly longer result of at most plist_len segments.
C21_UndershootOnlyGrows ==
    [][(RetryReturns /\ Len(best_result_list) <= plist_len) =>
        /\ Len(best_result_list') <= plist_len
        /\ Len(best_result_list') >= Len(best_result_list)
        /\ best_result_list' # best_result_list =>
            /\ best_result_list' = result_list'
            /\ Len(best_result_list) < Len(result_list')
            /\ Len(result_list') <= plist_len]_vars

\* a shorter re-translation has not replaced a best result that undershoots
C21_Witness ==
    /\ pc = "sleep"
    /\ plist_len = 2
    /\ retry_count = 2
    /\ Len(best_result_list) = 1
    /\ result_list = <<>>

====
